---- MODULE Spec2Model ----
(***************************************************************************)
(* A model of drivers/perf/arm_pmu.c: the ARM performance counter driver.  *)
(*                                                                         *)
(* Word sizes are scaled down so that the state space is finite: a 32-bit  *)
(* quantity is Bits32 bits wide and a 64-bit quantity is 2 * Bits32 bits   *)
(* wide.  All arithmetic of the driver is kept modulo these widths.        *)
(***************************************************************************)
EXTENDS Integers, Sequences, FiniteSets, TLC

\* ---------------------------------------------------------------- bounds
\* width of the scaled 32-bit word
Bits32 == 3
\* number of events the hardware counts in one behaviour
MaxTicks == 2

\* armpmu->num_events of the bank of the lifecycle specification
NumEvents == 2

\* ------------------------------------------------------------ word sizes
Bits64 == 2 * Bits32
U64Mod == 2 ^ Bits64
\* the literal 0xffffffff of armpmu_event_set_period
Mask32 == (2 ^ Bits32) - 1

\* (u64)x : two's complement truncation to the 64-bit word
U64(x) == x % U64Mod
\* x & mask, for a mask of the form 2^k - 1 and x >= 0
BitAnd(x, mask) == x % (mask + 1)
\* x >> 1 for x >= 0
Shr1(x) == x \div 2

\* ------------------------------------------------------------- constants
NULL == "NULL"
PERF_HES_STOPPED == "STOPPED"
PERF_HES_UPTODATE == "UPTODATE"
PERF_EVENT_STATE_ERROR == -2
PERF_EVENT_STATE_OFF == -1
PERF_EVENT_STATE_INACTIVE == 0
PERF_EVENT_STATE_ACTIVE == 1
ENOENT == -2
EAGAIN == -11
EBUSY == -16
EINVAL == -22

CPUs == {0, 1}
Events == {"e1", "e2"}

VARIABLES
    \* struct arm_pmu
    max_period, num_events, has_reset, supported_cpus,
    \* struct pmu_hw_events, one per cpu
    used_mask, events,
    \* the counter hardware of each cpu: raw value, enable bit, overflow flag
    counter, enabled, ovf,
    \* struct perf_event / struct hw_perf_event
    hw_state, idx, sample_period, period_left, prev_count, count, ev_state,
    \* position of the normal-context code of cpu 0 inside armpmu_del
    pc, pc_ev, pc_cpu,
    \* power state of each cpu of supported_cpus
    pm,
    \* the running subscriptions saved by the last low-power entry
    pm_saved,
    \* the last operation performed, its result and the hooks it called
    last,
    \* number of events the hardware has counted so far
    nticks,
    \* armpmu_event_update running step by step in normal context: the next
    \* line to execute and the locals prev_raw_count and new_raw_count
    upd_pc, prev_raw_count, new_raw_count,
    \* group validation: the group (leader, siblings, new event), the
    \* used_mask of validate_group's fake_pmu and the result of the init
    grp, fake_used, vg_ret,
    \* interrupts: hw_events->irq of every cpu, the fields pmu_state,
    \* percpu_irq and active_irqs of the arm_pmu, and the lines the
    \* interrupt core has handed out
    irq, pmu_state, percpu_irq, active_irqs, requested,
    \* armpmu_free_irq in progress and its cpu; the cpus that are online,
    \* the pairs <<line, cpu>> of a per-cpu line enabled on a cpu, and whether the
    \* arm_pmu has a plat_device
    irq_pc, irq_pc_cpu, online, ppi_enabled, plat_device,
    \* event init: attr.type and attr.config of the event, the bank's
    \* raw_event_mask and tables, hwc->config_base and the result
    attr_type, attr_config, raw_event_mask, event_map, cache_map,
    config_base, init_res

bankVars == <<max_period, num_events, has_reset, supported_cpus>>
slotVars == <<used_mask, events>>
hwVars == <<counter, enabled, ovf>>
evVars == <<hw_state, idx, sample_period, period_left, prev_count, count, ev_state>>
pcVars == <<pc, pc_ev, pc_cpu>>
lifeVars == <<bankVars, slotVars, hwVars, evVars, pcVars, pm, pm_saved, last,
             nticks>>

updVars == <<upd_pc, prev_raw_count, new_raw_count>>
\* what the lifecycle operations leave alone
groupVars == <<grp, fake_used, vg_ret>>
irqVars == <<irq, pmu_state, percpu_irq, active_irqs, requested, irq_pc,
            irq_pc_cpu, online, ppi_enabled, plat_device>>
mapVars == <<attr_type, attr_config, raw_event_mask, event_map, cache_map,
            config_base, init_res>>
auxVars == <<updVars, groupVars, irqVars, mapVars>>

vars == <<lifeVars, auxVars>>

Slots == 0 .. (num_events - 1)

\* ------------------------------------------------- PeriodAccountant (pure)
\* lines 116-132 with the second test only
ReconcileLeft_one_test(left, period) ==
    IF left <= 0 THEN left + period ELSE left

\* lines 116-132: period_left after the two reconciliation tests
ReconcileLeft(left, period) ==
    LET left1 == IF left <= -period THEN period ELSE left
    IN  IF left1 <= 0 THEN left1 + period ELSE left1

\* lines 118-132: the return value
ReconcileRet(left, period) ==
    LET left1 == IF left <= -period THEN period ELSE left
    IN  IF left <= -period \/ left1 <= 0 THEN 1 ELSE 0

\* lines 140-141
ClampLeft(left, maxp) ==
    IF left > Shr1(maxp) THEN Shr1(maxp) ELSE left

\* line 143: local64_set(&hwc->prev_count, (u64)-left)
PrevCountOf(left) == U64(-left)

\* line 145: the value handed to write_counter
WrittenOf(left) == BitAnd(U64(-left), Mask32)

\* line 166 without the mask: a signed difference
DeltaOf_unmasked(new_raw, prev_raw, maxp) ==
    new_raw - prev_raw

\* line 166
DeltaOf(new_raw, prev_raw, maxp) ==
    BitAnd(U64(new_raw - prev_raw), maxp)

\* --------------------------------------------- operations on machine state
\* The fields an operation of the driver may change, as one record, so that
\* operations calling each other compose.
Machine ==
    [hw_state |-> hw_state, period_left |-> period_left,
     prev_count |-> prev_count, count |-> count, counter |-> counter,
     enabled |-> enabled, ovf |-> ovf, calls |-> <<>>, written |-> <<>>,
     set_period_ret |-> 0]

Commit(m) ==
    /\ hw_state' = m.hw_state
    /\ period_left' = m.period_left
    /\ prev_count' = m.prev_count
    /\ count' = m.count
    /\ counter' = m.counter
    /\ enabled' = m.enabled
    /\ ovf' = m.ovf

\* armpmu->write_counter(event, v): the counter keeps max_period's width;
\* the value handed over is recorded
write_counter(m, c, i, v) ==
    [m EXCEPT !.counter[c][i] = BitAnd(v, max_period),
              !.written = Append(@, v)]

armpmu_event_set_period(m, e, c, i) ==
    LET left == ReconcileLeft(m.period_left[e], sample_period[e])
        prog == ClampLeft(left, max_period)
        m1 == [m EXCEPT !.period_left[e] = left,
                        !.prev_count[e] = PrevCountOf(prog),
                        !.set_period_ret =
                            ReconcileRet(m.period_left[e], sample_period[e]),
                        !.calls = Append(@, "set_period")]
    IN  write_counter(m1, c, i, WrittenOf(prog))

armpmu_event_update(m, e, c, i) ==
    LET prev_raw == m.prev_count[e]
        new_raw == m.counter[c][i]
        delta == DeltaOf(new_raw, prev_raw, max_period)
    IN  [m EXCEPT !.prev_count[e] = new_raw,
                  !.count[e] = @ + delta,
                  !.period_left[e] = @ - delta,
                  !.calls = Append(@, "update")]

\* armpmu_stop without the test of PERF_HES_STOPPED
armpmu_stop_unguarded(m, e, c, i) ==
    LET m1 == [m EXCEPT !.enabled[c][i] = FALSE,
                        !.calls = Append(@, "disable")]
        m2 == armpmu_event_update(m1, e, c, i)
    IN  [m2 EXCEPT !.hw_state[e] =
                       @ \cup {PERF_HES_STOPPED, PERF_HES_UPTODATE}]

\* armpmu_stop that leaves the counter enabled
armpmu_stop_nodisable(m, e, c, i) ==
    IF PERF_HES_STOPPED \notin m.hw_state[e]
    THEN LET m2 == armpmu_event_update(m, e, c, i)
         IN  [m2 EXCEPT !.hw_state[e] =
                            @ \cup {PERF_HES_STOPPED, PERF_HES_UPTODATE}]
    ELSE m

armpmu_stop(m, e, c, i) ==
    IF PERF_HES_STOPPED \notin m.hw_state[e]
    THEN LET m1 == [m EXCEPT !.enabled[c][i] = FALSE,
                             !.calls = Append(@, "disable")]
             m2 == armpmu_event_update(m1, e, c, i)
         IN  [m2 EXCEPT !.hw_state[e] =
                            @ \cup {PERF_HES_STOPPED, PERF_HES_UPTODATE}]
    ELSE m

armpmu_start(m, e, c, i) ==
    LET m1 == [m EXCEPT !.hw_state[e] = {}]
        m2 == armpmu_event_set_period(m1, e, c, i)
    IN  [m2 EXCEPT !.enabled[c][i] = TRUE, !.calls = Append(@, "enable")]

\* the cpu an event is scheduled on
CpuOf(e) == CHOOSE c \in CPUs : \E i \in Slots : events[c][i] = e
Added(e) == \E c \in CPUs : \E i \in Slots : events[c][i] = e

\* code runs and events are counted on a cpu that is not in low power
Running(c) == c \in supported_cpus => pm[c] = "run"

Op(name, e, c, ret, calls) ==
    [op |-> name, ev |-> e, cpu |-> c, ret |-> ret, calls |-> calls,
     written |-> <<>>, saved |-> {}, set_period_ret |-> 0]

\* the record of an operation that ran on machine m
OpM(name, e, c, ret, m) ==
    [Op(name, e, c, ret, m.calls) EXCEPT !.written = m.written,
                                         !.set_period_ret = m.set_period_ret]

\* an event holds a slot of cpu c
OnCore(e, c) ==
    /\ ev_state[e] = PERF_EVENT_STATE_ACTIVE
    /\ idx[e] \in Slots
    /\ events[c][idx[e]] = e

\* the events the hardware has counted since the last update of e
Pending(e, c) == (counter[c][idx[e]] - prev_count[e]) % (max_period + 1)

UpdIdle == upd_pc = "idle" /\ prev_raw_count = 0 /\ new_raw_count = 0
GroupIdle == grp = <<>> /\ fake_used = {} /\ vg_ret = [done |-> FALSE, ret |-> 0]
IrqIdle ==
    /\ irq = [c \in CPUs |-> 0]
    /\ pmu_state = "OFF"
    /\ percpu_irq = -1
    /\ active_irqs = {}
    /\ requested = {}
    /\ irq_pc = "idle" /\ irq_pc_cpu = 0
    /\ online = CPUs
    /\ ppi_enabled = {}
    /\ plat_device = TRUE
MapIdle ==
    /\ attr_type = "PERF_TYPE_RAW" /\ attr_config = 0
    /\ raw_event_mask = 0
    /\ event_map = NULL /\ cache_map = NULL
    /\ config_base = 0
    /\ init_res = [done |-> FALSE, ret |-> 0, step |-> "none"]
AuxIdle == UpdIdle /\ GroupIdle /\ IrqIdle /\ MapIdle

\* ------------------------------------------------------------- lifecycle
\* armpmu->get_event_idx: the selection strategy returns an unused index
\* and marks it used, or fails when there is none
FreeSlots(mask) == Slots \ mask

armpmu_add(e, c, start) ==
    /\ pc = "idle" /\ Running(c)
    /\ ev_state[e] = PERF_EVENT_STATE_INACTIVE
    /\ IF c \notin supported_cpus
       THEN /\ last' = Op("add", e, c, ENOENT, <<>>)
            /\ UNCHANGED <<slotVars, hwVars, evVars>>
       ELSE IF FreeSlots(used_mask[c]) = {}
       THEN /\ last' = Op("add", e, c, EAGAIN, <<"get_event_idx">>)
            /\ UNCHANGED <<slotVars, hwVars, evVars>>
       ELSE \E i \in FreeSlots(used_mask[c]) :
            LET m0 == [Machine EXCEPT
                         !.hw_state[e] = {PERF_HES_STOPPED, PERF_HES_UPTODATE},
                         !.calls = <<"get_event_idx">>]
                m == IF start THEN armpmu_start(m0, e, c, i) ELSE m0
            IN  /\ used_mask' = [used_mask EXCEPT ![c] = @ \cup {i}]
                /\ events' = [events EXCEPT ![c][i] = e]
                /\ idx' = [idx EXCEPT ![e] = i]
                /\ ev_state' = [ev_state EXCEPT ![e] = PERF_EVENT_STATE_ACTIVE]
                /\ Commit(m)
                /\ last' = OpM("add", e, c, 0, m)
                /\ UNCHANGED sample_period
    /\ UNCHANGED <<auxVars, bankVars, pcVars, pm, pm_saved, nticks>>

\* armpmu_del, lines 227-229
DelStop(e) ==
    /\ pc = "idle"
    /\ ev_state[e] = PERF_EVENT_STATE_ACTIVE
    /\ Running(CpuOf(e))
    /\ LET m == armpmu_stop(Machine, e, CpuOf(e), idx[e])
       IN  /\ Commit(m)
           /\ last' = OpM("del_stop", e, CpuOf(e), 0, m)
    /\ ev_state' = [ev_state EXCEPT ![e] = PERF_EVENT_STATE_INACTIVE]
    /\ pc' = "del_stopped" /\ pc_ev' = e /\ pc_cpu' = CpuOf(e)
    /\ UNCHANGED <<auxVars, bankVars, slotVars, idx, sample_period, pm, pm_saved, nticks>>

\* armpmu_del, line 230
DelClearOwner ==
    /\ pc = "del_stopped"
    /\ events' = [events EXCEPT ![pc_cpu][idx[pc_ev]] = NULL]
    /\ pc' = "del_owner_cleared"
    /\ last' = Op("del_clear_owner", pc_ev, pc_cpu, 0, <<>>)
    /\ UNCHANGED <<auxVars, bankVars, used_mask, hwVars, evVars, pc_ev, pc_cpu, pm,
                   pm_saved, nticks>>

\* a clear_bit that clears nothing
clear_bit_lost(i, mask) == mask

\* clear_bit(idx, hw_events->used_mask)
clear_bit(i, mask) == mask \ {i}

\* armpmu_del, lines 231-235
DelClearBit ==
    /\ pc = "del_owner_cleared"
    /\ used_mask' = [used_mask EXCEPT ![pc_cpu] = clear_bit(idx[pc_ev], @)]
    /\ pc' = "idle" /\ pc_ev' = NULL /\ pc_cpu' = 0
    /\ last' = Op("del", pc_ev, pc_cpu, 0, <<"clear_event_idx">>)
    /\ UNCHANGED <<auxVars, bankVars, events, hwVars, evVars, pm, pm_saved, nticks>>

\* pmu->start called by the event framework on a stopped event
Start(e) ==
    /\ pc = "idle"
    /\ ev_state[e] = PERF_EVENT_STATE_ACTIVE
    /\ Running(CpuOf(e))
    /\ PERF_HES_STOPPED \in hw_state[e]
    /\ LET m == armpmu_start(Machine, e, CpuOf(e), idx[e])
       IN  /\ Commit(m)
           /\ last' = OpM("start", e, CpuOf(e), 0, m)
    /\ UNCHANGED <<auxVars, bankVars, slotVars, idx, sample_period, ev_state, pcVars,
                   pm, pm_saved, nticks>>

\* pmu->stop called by the event framework, on a running or a stopped event
Stop(e) ==
    /\ pc = "idle"
    /\ ev_state[e] = PERF_EVENT_STATE_ACTIVE
    /\ Running(CpuOf(e))
    /\ LET m == armpmu_stop(Machine, e, CpuOf(e), idx[e])
       IN  /\ Commit(m)
           /\ last' = OpM("stop", e, CpuOf(e), 0, m)
    /\ UNCHANGED <<auxVars, bankVars, slotVars, idx, sample_period, ev_state, pcVars,
                   pm, pm_saved, nticks>>

\* pmu->read, which the event framework calls on a counting event
armpmu_read(e) ==
    /\ pc = "idle"
    /\ ev_state[e] = PERF_EVENT_STATE_ACTIVE
    /\ Running(CpuOf(e))
    /\ PERF_HES_STOPPED \notin hw_state[e]
    /\ LET m == armpmu_event_update(Machine, e, CpuOf(e), idx[e])
       IN  /\ Commit(m)
           /\ last' = OpM("read", e, CpuOf(e), 0, m)
    /\ UNCHANGED <<auxVars, bankVars, slotVars, idx, sample_period, ev_state, pcVars,
                   pm, pm_saved, nticks>>

\* The hardware counts one event in a slot that is in use.  A disabled
\* counter may go on counting (comment of armpmu_start, lines 211-215).
Tick(c, i) ==
    /\ Running(c)
    /\ i \in used_mask[c]
    /\ nticks < MaxTicks
    /\ nticks' = nticks + 1
    /\ counter' = [counter EXCEPT ![c][i] = BitAnd(@ + 1, max_period)]
    /\ ovf' = [ovf EXCEPT ![c][i] = @ \/ counter[c][i] = max_period]
    /\ last' = Op("tick", NULL, c, 0, <<>>)
    /\ UNCHANGED <<auxVars, bankVars, slotVars, enabled, evVars, pcVars, pm, pm_saved>>

\* armpmu->handle_irq, entered through armpmu_dispatch_irq: for an enabled
\* counter that has overflowed, update the owner and arm it again.  It
\* preempts the normal context of its cpu at any point.
handle_irq(c, i) ==
    /\ Running(c)
    /\ ovf[c][i] /\ enabled[c][i]
    /\ LET e == events[c][i]
           m0 == [Machine EXCEPT !.ovf[c][i] = FALSE]
           m == IF e = NULL THEN m0
                ELSE armpmu_event_set_period(
                         armpmu_event_update(m0, e, c, i), e, c, i)
       IN  /\ Commit(m)
           /\ last' = OpM("irq", e, c, 0, m)
    /\ UNCHANGED <<auxVars, bankVars, slotVars, idx, sample_period, ev_state, pcVars,
                   pm, pm_saved, nticks>>

\* ------------------------------------------------------ power transitions
CPU_PM_ENTER == "CPU_PM_ENTER"
CPU_PM_EXIT == "CPU_PM_EXIT"
CPU_PM_ENTER_FAILED == "CPU_PM_ENTER_FAILED"

\* armpmu->reset: the hardware comes back with every counter disabled,
\* zeroed and without a pending overflow
reset_hook(m, c) ==
    [m EXCEPT !.enabled[c] = [i \in Slots |-> FALSE],
              !.counter[c] = [i \in Slots |-> 0],
              !.ovf[c] = [i \in Slots |-> FALSE],
              !.calls = Append(@, "reset")]

\* a cpu_pm_pmu_setup that skips every slot
cpu_pm_pmu_setup_skip(m, c, cmd, i) == m

\* the loop of cpu_pm_pmu_setup from slot i on
RECURSIVE cpu_pm_pmu_setup(_, _, _, _)
cpu_pm_pmu_setup(m, c, cmd, i) ==
    IF i >= num_events THEN m
    ELSE IF i \notin used_mask[c] THEN cpu_pm_pmu_setup(m, c, cmd, i + 1)
    ELSE IF events[c][i] = NULL THEN cpu_pm_pmu_setup(m, c, cmd, i + 1)
    ELSE IF ev_state[events[c][i]] # PERF_EVENT_STATE_ACTIVE
         THEN cpu_pm_pmu_setup(m, c, cmd, i + 1)
    ELSE IF cmd = CPU_PM_ENTER
         THEN cpu_pm_pmu_setup(armpmu_stop(m, events[c][i], c, i),
                               c, cmd, i + 1)
    ELSE cpu_pm_pmu_setup(armpmu_start(m, events[c][i], c, i), c, cmd, i + 1)

\* a cpu_pm_pmu_common that tests the used slots before it resets
cpu_pm_pmu_common_reset_if_used(c, cmd) ==
    LET nused == Cardinality(used_mask[c] \cap Slots)
        m0 == Machine
        m1 == IF cmd = CPU_PM_EXIT /\ has_reset THEN reset_hook(m0, c) ELSE m0
    IN  IF c \notin supported_cpus THEN [m |-> m0, ret |-> "NOTIFY_DONE"]
        ELSE IF nused = 0 THEN [m |-> m0, ret |-> "NOTIFY_OK"]
        ELSE IF cmd = CPU_PM_ENTER
        THEN [m |-> cpu_pm_pmu_setup(
                        [m1 EXCEPT !.calls = Append(@, "stop_hook")],
                        c, cmd, 0),
              ret |-> "NOTIFY_OK"]
        ELSE [m |-> [cpu_pm_pmu_setup(m1, c, cmd, 0)
                        EXCEPT !.calls = Append(@, "start_hook")],
              ret |-> "NOTIFY_OK"]

\* cpu_pm_pmu_common: the machine after the notification and its result
cpu_pm_pmu_common(c, cmd) ==
    LET nused == Cardinality(used_mask[c] \cap Slots)
        m0 == Machine
        m1 == IF cmd = CPU_PM_EXIT /\ has_reset THEN reset_hook(m0, c) ELSE m0
    IN  IF c \notin supported_cpus THEN [m |-> m0, ret |-> "NOTIFY_DONE"]
        ELSE IF nused = 0 THEN [m |-> m1, ret |-> "NOTIFY_OK"]
        ELSE IF cmd = CPU_PM_ENTER
        THEN [m |-> cpu_pm_pmu_setup(
                        [m1 EXCEPT !.calls = Append(@, "stop_hook")],
                        c, cmd, 0),
              ret |-> "NOTIFY_OK"]
        ELSE [m |-> [cpu_pm_pmu_setup(m1, c, cmd, 0)
                        EXCEPT !.calls = Append(@, "start_hook")],
              ret |-> "NOTIFY_OK"]

NotSaved == [active |-> FALSE, count |-> 0, pending |-> 0]

PmEnter(c) ==
    /\ pc = "idle" /\ c \in supported_cpus /\ pm[c] = "run"
    /\ LET r == cpu_pm_pmu_common(c, CPU_PM_ENTER)
       IN  /\ Commit(r.m)
           /\ last' = OpM(CPU_PM_ENTER, NULL, c, r.ret, r.m)
    /\ pm' = [pm EXCEPT ![c] = "lowpower"]
    /\ pm_saved' = [e \in Events |->
                      IF OnCore(e, c) /\ hw_state[e] = {}
                      THEN [active |-> TRUE, count |-> count[e],
                            pending |-> Pending(e, c)]
                      ELSE NotSaved]
    /\ UNCHANGED <<auxVars, bankVars, slotVars, idx, sample_period, ev_state, pcVars,
                   nticks>>

PmExit(c, cmd) ==
    /\ pc = "idle" /\ c \in supported_cpus /\ pm[c] = "lowpower"
    /\ LET r == cpu_pm_pmu_common(c, cmd)
       IN  /\ Commit(r.m)
           /\ last' = [OpM(cmd, NULL, c, r.ret, r.m) EXCEPT !.saved =
                         {e \in Events : pm_saved[e].active}]
    /\ pm' = [pm EXCEPT ![c] = "run"]
    /\ pm_saved' = [e \in Events |-> NotSaved]
    /\ UNCHANGED <<auxVars, bankVars, slotVars, idx, sample_period, ev_state, pcVars,
                   nticks>>

\* a power notification of a cpu outside supported_cpus, in any order
PmOther(c, cmd) ==
    /\ pc = "idle" /\ c \notin supported_cpus
    /\ LET r == cpu_pm_pmu_common(c, cmd)
       IN  /\ Commit(r.m)
           /\ last' = OpM(cmd, NULL, c, r.ret, r.m)
    /\ UNCHANGED <<auxVars, bankVars, slotVars, idx, sample_period, ev_state, pcVars,
                   pm, pm_saved, nticks>>

\* ------------------------------------------------------ lifecycle claims
Range(f) == {f[k] : k \in DOMAIN f}

\* C1: whenever no del is in progress, the number of used bits of a core
\* equals the number of subscriptions holding a slot of that core, every
\* scheduled subscription holds a slot of some core, and no two of them
\* hold the same slot of one core.
SlotExclusivity ==
    pc = "idle" =>
        /\ \A c \in CPUs :
               Cardinality(used_mask[c]) =
                   Cardinality({e \in Events : OnCore(e, c)})
        /\ \A e \in Events :
               ev_state[e] = PERF_EVENT_STATE_ACTIVE =>
                   \E c \in CPUs : OnCore(e, c) /\ idx[e] \in used_mask[c]
        /\ \A e1, e2 \in Events : \A c \in CPUs :
               (e1 # e2 /\ OnCore(e1, c) /\ OnCore(e2, c)) => idx[e1] # idx[e2]

\* a del has returned and the other subscription still holds its slot
SlotExclusivityWitness ==
    /\ pc = "idle"
    /\ last.op = "del"
    /\ Cardinality(used_mask[0]) = 1
    /\ \E e \in Events : OnCore(e, 0) /\ e # last.ev

\* C3: a counter that is enabled always has an owner and a used bit, and
\* from the moment armpmu_del has stopped the subscription until it returns
\* the slot it releases is disabled.
DeleteOrdering ==
    /\ \A c \in CPUs : \A i \in Slots :
           enabled[c][i] => (events[c][i] # NULL /\ i \in used_mask[c])
    /\ pc # "idle" => ~enabled[pc_cpu][idx[pc_ev]]

\* the owner of a slot is cleared while an overflow of that slot is pending
DeleteOrderingWitness ==
    /\ pc = "del_owner_cleared"
    /\ events[pc_cpu][idx[pc_ev]] = NULL
    /\ ovf[pc_cpu][idx[pc_ev]]
    /\ ~enabled[pc_cpu][idx[pc_ev]]

\* C4: on a supported core a low-power entry leaves every running
\* subscription stopped, disabled and with its pending events added to the
\* total; the matching exit leaves each of them running, enabled and armed
\* again, with the total the entry left, which is the total before the
\* entry when the hardware had counted nothing since the last update.
PowerCycle ==
    [][\A c \in supported_cpus :
        /\ (pm[c] = "run" /\ pm'[c] = "lowpower") =>
              \A e \in Events :
                  (OnCore(e, c) /\ hw_state[e] = {}) =>
                      /\ hw_state'[e] = {PERF_HES_STOPPED, PERF_HES_UPTODATE}
                      /\ ~enabled'[c][idx[e]]
                      /\ count'[e] = count[e] + Pending(e, c)
                      /\ prev_count'[e] = counter'[c][idx[e]]
        /\ (pm[c] = "lowpower" /\ pm'[c] = "run") =>
              \A e \in Events :
                  pm_saved[e].active =>
                      /\ hw_state'[e] = {}
                      /\ enabled'[c][idx[e]]
                      /\ period_left'[e] > 0
                      /\ counter'[c][idx[e]] =
                             prev_count'[e] % (max_period + 1)
                      /\ count'[e] = count[e]
                      /\ count'[e] = pm_saved[e].count + pm_saved[e].pending
                      /\ pm_saved[e].pending = 0 =>
                             count'[e] = pm_saved[e].count
      ]_vars

\* a subscription that ran before the entry runs again right after the exit
PowerCycleWitness ==
    /\ last.op = CPU_PM_EXIT /\ last.cpu \in supported_cpus
    /\ \E e \in last.saved :
           /\ hw_state[e] = {} /\ enabled[last.cpu][idx[e]]
           /\ count[e] > 0

\* C5: a stop of a subscription that is already stopped calls neither
\* disable nor update and changes no field of the subscription, of the
\* slots or of the hardware; every stop leaves the subscription stopped.
IdempotentStop ==
    [][last'.op = "stop" =>
        /\ PERF_HES_STOPPED \in hw_state'[last'.ev]
        /\ PERF_HES_STOPPED \in hw_state[last'.ev] =>
              /\ last'.calls = <<>>
              /\ UNCHANGED <<slotVars, hwVars, evVars>>
      ]_vars

\* a stopped subscription whose counter went on counting is stopped again
IdempotentStopWitness ==
    /\ last.op = "stop" /\ last.calls = <<>>
    /\ PERF_HES_STOPPED \in hw_state[last.ev]
    /\ counter[last.cpu][idx[last.ev]] # prev_count[last.ev] % (max_period + 1)

\* C9: every update adds (new_raw - prev_count) mod (max_period + 1), which
\* is not negative, to the total and takes it from period_left (which the
\* interrupt handler then reconciles), and no step decreases a total.
UpdateArithmetic ==
    [][/\ \A e \in Events : count'[e] >= count[e]
       /\ (last'.op \in {"read", "stop", "del_stop", "irq"}
           /\ "update" \in Range(last'.calls)) =>
             LET e == last'.ev
                 new_raw == counter[last'.cpu][idx[e]]
                 delta == (new_raw - prev_count[e]) % (max_period + 1)
             IN  /\ delta >= 0
                 /\ count'[e] = count[e] + delta
                 /\ last'.op # "irq" =>
                        /\ period_left'[e] = period_left[e] - delta
                        /\ prev_count'[e] = new_raw
                 /\ last'.op = "irq" =>
                        period_left'[e] =
                            ReconcileLeft(period_left[e] - delta,
                                          sample_period[e])
      ]_vars

\* an update has seen the raw value wrapped past zero
UpdateArithmeticWitness ==
    /\ last.op = "irq" /\ last.ev # NULL
    /\ "update" \in Range(last.calls)
    /\ count[last.ev] >= 2

\* ------------------------------------- update racing with the interrupt
\* Subscription e1 runs in slot 0 of cpu 0.  The normal context of cpu 0
\* executes armpmu_event_update one statement at a time; the overflow
\* interrupt of the same cpu (handle_irq) and the counting hardware (Tick)
\* may run between any two statements.
RaceEv == "e1"

\* armpmu_read is called
UpdCall ==
    /\ upd_pc = "idle"
    /\ upd_pc' = "L159"
    /\ last' = Op("read_call", RaceEv, 0, 0, <<>>)
    /\ UNCHANGED <<groupVars, irqVars, mapVars, prev_raw_count, new_raw_count, bankVars, slotVars, hwVars,
                   evVars, pcVars, pm, pm_saved, nticks>>

\* line 159
UpdReadPrev ==
    /\ upd_pc = "L159"
    /\ prev_raw_count' = prev_count[RaceEv]
    /\ upd_pc' = "L160"
    /\ last' = Op("L159", RaceEv, 0, 0, <<>>)
    /\ UNCHANGED <<groupVars, irqVars, mapVars, new_raw_count, bankVars, slotVars, hwVars, evVars, pcVars,
                   pm, pm_saved, nticks>>

\* line 160
UpdReadCounter ==
    /\ upd_pc = "L160"
    /\ new_raw_count' = counter[0][idx[RaceEv]]
    /\ upd_pc' = "L162"
    /\ last' = Op("L160", RaceEv, 0, 0, <<>>)
    /\ UNCHANGED <<groupVars, irqVars, mapVars, prev_raw_count, bankVars, slotVars, hwVars, evVars, pcVars,
                   pm, pm_saved, nticks>>

\* a cmpxchg that may fail although prev_count is the value read
UpdCmpxchg_spurious ==
    /\ upd_pc = "L162"
    /\ \/ /\ prev_count[RaceEv] = prev_raw_count
          /\ prev_count' = [prev_count EXCEPT ![RaceEv] = new_raw_count]
          /\ upd_pc' = "L168"
          /\ last' = Op("L162", RaceEv, 0, 0, <<"cmpxchg">>)
       \/ /\ upd_pc' = "L159"
          /\ last' = Op("L162", RaceEv, 0, 0, <<"again">>)
          /\ UNCHANGED prev_count
    /\ UNCHANGED <<groupVars, irqVars, mapVars, prev_raw_count, new_raw_count, bankVars, slotVars, hwVars,
                   hw_state, idx, sample_period, period_left, count, ev_state,
                   pcVars, pm, pm_saved, nticks>>

\* lines 162-164: local64_cmpxchg and the retry
UpdCmpxchg ==
    /\ upd_pc = "L162"
    /\ IF prev_count[RaceEv] = prev_raw_count
       THEN /\ prev_count' = [prev_count EXCEPT ![RaceEv] = new_raw_count]
            /\ upd_pc' = "L168"
            /\ last' = Op("L162", RaceEv, 0, 0, <<"cmpxchg">>)
       ELSE /\ upd_pc' = "L159"
            /\ last' = Op("L162", RaceEv, 0, 0, <<"again">>)
            /\ UNCHANGED prev_count
    /\ UNCHANGED <<groupVars, irqVars, mapVars, prev_raw_count, new_raw_count, bankVars, slotVars, hwVars,
                   hw_state, idx, sample_period, period_left, count, ev_state,
                   pcVars, pm, pm_saved, nticks>>

\* lines 166-168
UpdAddCount ==
    /\ upd_pc = "L168"
    /\ count' = [count EXCEPT ![RaceEv] =
                    @ + DeltaOf(new_raw_count, prev_raw_count, max_period)]
    /\ upd_pc' = "L169"
    /\ last' = Op("L168", RaceEv, 0, 0, <<>>)
    /\ UNCHANGED <<groupVars, irqVars, mapVars, prev_raw_count, new_raw_count, bankVars, slotVars, hwVars,
                   hw_state, idx, sample_period, period_left, prev_count,
                   ev_state, pcVars, pm, pm_saved, nticks>>

\* lines 169-171
UpdSubLeft ==
    /\ upd_pc = "L169"
    /\ period_left' = [period_left EXCEPT ![RaceEv] =
                    @ - DeltaOf(new_raw_count, prev_raw_count, max_period)]
    /\ upd_pc' = "idle"
    /\ last' = Op("read_return", RaceEv, 0, new_raw_count, <<>>)
    /\ UNCHANGED <<groupVars, irqVars, mapVars, prev_raw_count, new_raw_count, bankVars, slotVars, hwVars,
                   hw_state, idx, sample_period, prev_count, count, ev_state,
                   pcVars, pm, pm_saved, nticks>>

\* the state after armpmu_add(e1, PERF_EF_START) on cpu 0, for every
\* sample period that fits the counter
InitRace ==
    /\ supported_cpus = {0}
    /\ max_period = Mask32
    /\ num_events = NumEvents
    /\ has_reset = TRUE
    /\ used_mask = [c \in CPUs |-> IF c = 0 THEN {0} ELSE {}]
    /\ events = [c \in CPUs |->
                   [i \in Slots |-> IF c = 0 /\ i = 0 THEN RaceEv ELSE NULL]]
    /\ \E p \in 1 .. Shr1(Mask32) :
         /\ sample_period = [e \in Events |-> p]
         /\ period_left = [e \in Events |-> p]
         /\ prev_count = [e \in Events |->
                            IF e = RaceEv THEN PrevCountOf(p) ELSE 0]
         /\ counter = [c \in CPUs |-> [i \in Slots |->
                         IF c = 0 /\ i = 0 THEN WrittenOf(p) ELSE 0]]
    /\ enabled = [c \in CPUs |-> [i \in Slots |-> c = 0 /\ i = 0]]
    /\ ovf = [c \in CPUs |-> [i \in Slots |-> FALSE]]
    /\ hw_state = [e \in Events |-> {}]
    /\ idx = [e \in Events |-> IF e = RaceEv THEN 0 ELSE -1]
    /\ count = [e \in Events |-> 0]
    /\ ev_state = [e \in Events |-> IF e = RaceEv
                                    THEN PERF_EVENT_STATE_ACTIVE
                                    ELSE PERF_EVENT_STATE_INACTIVE]
    /\ pc = "idle" /\ pc_ev = NULL /\ pc_cpu = 0
    /\ pm = [c \in supported_cpus |-> "run"]
    /\ pm_saved = [e \in Events |-> NotSaved]
    /\ last = Op("init", NULL, 0, 0, <<>>)
    /\ nticks = 0
    /\ AuxIdle

NextRace ==
    \/ UpdCall
    \/ UpdReadPrev
    \/ UpdReadCounter
    \/ UpdCmpxchg
    \/ UpdAddCount
    \/ UpdSubLeft
    \/ Tick(0, 0)
    \/ handle_irq(0, 0)

SpecRace == InitRace /\ [][NextRace]_vars

\* the normal context of cpu 0 goes on executing armpmu_event_update once
\* it is in it: a statement of the function that can run does run.  The
\* interrupt and the hardware are under no obligation.
UpdStep ==
    UpdReadPrev \/ UpdReadCounter \/ UpdCmpxchg \/ UpdAddCount \/ UpdSubLeft

SpecRaceLive == SpecRace /\ WF_vars(UpdStep)

\* C21: armpmu_event_update has no failure outcome and returns the raw
\* value it read; from line 159 on, prev_count stays the value read there
\* unless the interrupt runs, so every retry follows a change of prev_count
\* made by the interrupt; and with the finitely many interrupts the bounded
\* hardware can raise, every call returns.
UpdateCompletes ==
    /\ [][/\ (upd_pc = "L159" /\ upd_pc' = "L160") =>
                 prev_raw_count' = prev_count'[RaceEv]
          /\ (upd_pc \in {"L160", "L162"}
                /\ prev_count[RaceEv] = prev_raw_count
                /\ last'.op # "irq") =>
                 \/ (upd_pc' \in {"L160", "L162"}
                       /\ prev_count'[RaceEv] = prev_raw_count')
                 \/ (upd_pc = "L162" /\ upd_pc' = "L168")
          /\ (upd_pc = "L162" /\ upd_pc' = "L159") =>
                 prev_count[RaceEv] # prev_raw_count
          /\ (upd_pc = "L169" /\ upd_pc' = "idle") =>
                 /\ last'.op = "read_return"
                 /\ last'.ret = new_raw_count
          /\ upd_pc' \in {"idle", "L159", "L160", "L162", "L168", "L169"}
         ]_vars
    /\ (upd_pc # "idle") ~> (upd_pc = "idle")

\* the interrupt changed prev_count between lines 159 and 162 and the
\* update has just gone back to line 159
UpdateRetryWitness ==
    /\ upd_pc = "L159"
    /\ last.op = "L162" /\ last.calls = <<"again">>

\* C2: whenever no normal-context update is in progress, the deltas added
\* to the running total and the events the counter holds beyond prev_count
\* add up to the events the hardware has counted: no delta is lost and none
\* is added twice.
RaceNoLostDelta ==
    upd_pc = "idle" => count[RaceEv] + Pending(RaceEv, 0) = nticks

\* ------------------------------------------- arming for every bank width
MaxArmPeriod == 3
MaxArmLeft == 5
MaxArmCount == 4

\* Subscription e1 is stopped in slot 0 of cpu 0 of a bank of any counter
\* width, with any sample period and any period_left; start arms it.
InitArm ==
    /\ supported_cpus = {0}
    /\ \E w \in 2 .. Bits64 : max_period = (2 ^ w) - 1
    /\ num_events = NumEvents
    /\ has_reset = TRUE
    /\ used_mask = [c \in CPUs |-> IF c = 0 THEN {0} ELSE {}]
    /\ events = [c \in CPUs |->
                   [i \in Slots |-> IF c = 0 /\ i = 0 THEN "e1" ELSE NULL]]
    /\ \E p \in 1 .. MaxArmPeriod : sample_period = [e \in Events |-> p]
    /\ \E l \in (0 - MaxArmLeft) .. MaxArmLeft :
           period_left = [e \in Events |-> l]
    /\ prev_count = [e \in Events |-> 0]
    /\ counter = [c \in CPUs |-> [i \in Slots |-> 0]]
    /\ enabled = [c \in CPUs |-> [i \in Slots |-> FALSE]]
    /\ ovf = [c \in CPUs |-> [i \in Slots |-> FALSE]]
    /\ hw_state = [e \in Events |-> {PERF_HES_STOPPED, PERF_HES_UPTODATE}]
    /\ idx = [e \in Events |-> IF e = "e1" THEN 0 ELSE -1]
    /\ count = [e \in Events |-> 0]
    /\ ev_state = [e \in Events |-> IF e = "e1"
                                    THEN PERF_EVENT_STATE_ACTIVE
                                    ELSE PERF_EVENT_STATE_INACTIVE]
    /\ pc = "idle" /\ pc_ev = NULL /\ pc_cpu = 0
    /\ pm = [c \in supported_cpus |-> "run"]
    /\ pm_saved = [e \in Events |-> NotSaved]
    /\ last = Op("init", NULL, 0, 0, <<>>)
    /\ nticks = 0
    /\ AuxIdle

\* armpmu_start of e1, as long as its total is not past MaxArmCount
ArmStart ==
    /\ count["e1"] <= MaxArmCount
    /\ Start("e1")

NextArm ==
    \/ ArmStart
    \/ Stop("e1")
    \/ Tick(0, 0)

SpecArm == InitArm /\ [][NextArm]_vars

Min(a, b) == IF a < b THEN a ELSE b

\* C8: after start has armed a subscription, the value handed to the
\* hardware counter is (-clamped_left) & max_period with clamped_left =
\* min(period_left, max_period >> 1), and prev_count is that same value.
ArmProgramsCounter ==
    last.op = "start" =>
        LET clamped_left == Min(period_left[last.ev], Shr1(max_period))
            raw == (0 - clamped_left) % (max_period + 1)
        IN  /\ last.written = <<raw>>
            /\ prev_count[last.ev] = raw

\* ------------------------------------------------------ group validation
MaxGroup == 4
MaxGroupSlots == 3

\* what validate_event reads of a struct perf_event
\* (enable_on_exec is read only of an event in state OFF)
Members ==
    {ev \in [pmu : {"armpmu", "other", "software"},
             state : {PERF_EVENT_STATE_ERROR, PERF_EVENT_STATE_OFF,
                      PERF_EVENT_STATE_INACTIVE},
             enable_on_exec : BOOLEAN, idx : {-1}] :
        ev.enable_on_exec => ev.state = PERF_EVENT_STATE_OFF}

is_software_event(ev) == ev.pmu = "software"

\* armpmu->get_event_idx(hw_events, event) on the used_mask that hw_events
\* names: every outcome the selection strategy may produce
get_event_idx(masks, h) ==
    IF Slots \ masks[h] = {}
    THEN {[idx |-> EAGAIN, masks |-> masks]}
    ELSE {[idx |-> i, masks |-> [masks EXCEPT ![h] = @ \cup {i}]] :
             i \in Slots \ masks[h]}

\* validate_event: the outcomes [ok, masks]
validate_event(pmu, masks, h, ev) ==
    IF is_software_event(ev) THEN {[ok |-> 1, masks |-> masks]}
    ELSE IF ev.pmu # pmu THEN {[ok |-> 0, masks |-> masks]}
    ELSE IF ev.state < PERF_EVENT_STATE_OFF THEN {[ok |-> 1, masks |-> masks]}
    ELSE IF ev.state = PERF_EVENT_STATE_OFF /\ ~ev.enable_on_exec
         THEN {[ok |-> 1, masks |-> masks]}
    ELSE {[ok |-> IF r.idx >= 0 THEN 1 ELSE 0, masks |-> r.masks] :
             r \in get_event_idx(masks, h)}

\* validate_event over a list of events, stopping at the first failure
RECURSIVE validate_each(_, _, _, _)
validate_each(pmu, masks, h, evs) ==
    IF evs = <<>> THEN {[ok |-> 1, masks |-> masks]}
    ELSE UNION {IF r.ok = 0 THEN {r}
                ELSE validate_each(pmu, r.masks, h, Tail(evs)) :
                   r \in validate_event(pmu, masks, h, Head(evs))}

\* the used masks validate_group can reach: its own fake_pmu, zeroed by
\* the memset of line 308, and the real one of the cpu
GroupMasks == [fake_pmu |-> {}, cpu0 |-> used_mask[0]]

\* a validate_group that never validates the new event itself
validate_group_skip_event(leader, siblings, event) ==
    {[ret |-> IF r.ok = 0 THEN EINVAL ELSE 0, masks |-> r.masks] :
        r \in validate_each(event.pmu, GroupMasks, "fake_pmu",
                            <<leader>> \o siblings)}

\* a validate_group that simulates on the real used_mask of the cpu
validate_group_real(leader, siblings, event) ==
    {[ret |-> IF r.ok = 0 THEN EINVAL ELSE 0, masks |-> r.masks] :
        r \in validate_each(event.pmu, GroupMasks, "cpu0",
                            <<leader>> \o siblings \o <<event>>)}

\* validate_group: the outcomes [ret, masks]
validate_group(leader, siblings, event) ==
    {[ret |-> IF r.ok = 0 THEN EINVAL ELSE 0, masks |-> r.masks] :
        r \in validate_each(event.pmu, GroupMasks, "fake_pmu",
                            <<leader>> \o siblings \o <<event>>)}

\* __hw_perf_event_init, lines 420-425, for a new event (the last member of
\* grp) that joins the group of grp[1]
GroupInit ==
    /\ ~vg_ret.done
    /\ \E r \in validate_group(grp[1], SubSeq(grp, 2, Len(grp) - 1),
                               grp[Len(grp)]) :
         /\ vg_ret' = [done |-> TRUE, ret |-> IF r.ret # 0 THEN EINVAL ELSE 0]
         /\ fake_used' = r.masks.fake_pmu
         /\ used_mask' = [used_mask EXCEPT ![0] = r.masks.cpu0]
         /\ last' = Op("event_init", NULL, 0, IF r.ret # 0 THEN EINVAL ELSE 0,
                       <<"validate_group">>)
    /\ UNCHANGED <<grp, updVars, irqVars, mapVars, bankVars, events, hwVars, evVars, pcVars, pm,
                   pm_saved, nticks>>

\* A bank of 1 to MaxGroupSlots slots and a group of 2 to MaxGroup events
\* whose last member is the new event, an event of this bank that is not
\* yet scheduled. The leader may be e1, active in slot 0 of cpu 0.
InitGroup ==
    /\ supported_cpus = {0}
    /\ max_period = Mask32
    /\ num_events \in 1 .. MaxGroupSlots
    /\ has_reset = TRUE
    /\ \E held \in BOOLEAN :
         /\ \E n \in 2 .. MaxGroup : \E g \in [1 .. n -> Members] :
              /\ g[n].pmu = "armpmu"
              /\ g[n].state # PERF_EVENT_STATE_ERROR
              /\ grp = [k \in 1 .. n |->
                          IF k = 1 /\ held
                          THEN [pmu |-> "armpmu",
                                state |-> PERF_EVENT_STATE_ACTIVE,
                                enable_on_exec |-> FALSE, idx |-> 0]
                          ELSE g[k]]
         /\ used_mask = [c \in CPUs |-> IF c = 0 /\ held THEN {0} ELSE {}]
         /\ events = [c \in CPUs |-> [i \in Slots |->
                        IF c = 0 /\ i = 0 /\ held THEN "e1" ELSE NULL]]
         /\ idx = [e \in Events |-> IF e = "e1" /\ held THEN 0 ELSE -1]
         /\ ev_state = [e \in Events |-> IF e = "e1" /\ held
                                         THEN PERF_EVENT_STATE_ACTIVE
                                         ELSE PERF_EVENT_STATE_INACTIVE]
    /\ counter = [c \in CPUs |-> [i \in Slots |-> 0]]
    /\ enabled = [c \in CPUs |-> [i \in Slots |-> FALSE]]
    /\ ovf = [c \in CPUs |-> [i \in Slots |-> FALSE]]
    /\ hw_state = [e \in Events |-> {PERF_HES_STOPPED, PERF_HES_UPTODATE}]
    /\ sample_period = [e \in Events |-> Shr1(max_period)]
    /\ period_left = sample_period
    /\ prev_count = [e \in Events |-> 0]
    /\ count = [e \in Events |-> 0]
    /\ pc = "idle" /\ pc_ev = NULL /\ pc_cpu = 0
    /\ pm = [c \in supported_cpus |-> "run"]
    /\ pm_saved = [e \in Events |-> NotSaved]
    /\ last = Op("init", NULL, 0, 0, <<>>)
    /\ nticks = 0
    /\ UpdIdle /\ IrqIdle /\ MapIdle
    /\ fake_used = {} /\ vg_ret = [done |-> FALSE, ret |-> 0]

NextGroup == GroupInit

SpecGroup == InitGroup /\ [][NextGroup]_vars

NoSoftware == \A k \in DOMAIN grp : ~is_software_event(grp[k])
\* a member that validate_event lets pass without asking for a slot
Disabled(ev) ==
    \/ ev.state < PERF_EVENT_STATE_OFF
    \/ ev.state = PERF_EVENT_STATE_OFF /\ ~ev.enable_on_exec

\* C6 as stated: a group of 4 events, none of them software-only, on a
\* bank of 3 slots is rejected with EINVAL.
GroupOfFourRejected ==
    (vg_ret.done /\ Len(grp) = 4 /\ num_events = 3 /\ NoSoftware)
        => vg_ret.ret = EINVAL

\* C6 amended: a group with more members than the bank has slots (4 on a
\* bank of 3), none of them software-only and none of them disabled
\* (scheduler state below OFF, or OFF without enable_on_exec), is rejected
\* with EINVAL and the real used_mask is as before.
GroupAdmissionAtomic ==
    (/\ vg_ret.done /\ Len(grp) > num_events /\ NoSoftware
     /\ \A k \in DOMAIN grp : ~Disabled(grp[k]))
        => vg_ret.ret = EINVAL /\ last.ret = EINVAL

\* four enabled events of this bank were validated on three slots: three
\* found a scratch slot and the fourth did not
GroupAdmissionWitness ==
    /\ vg_ret.done /\ vg_ret.ret = EINVAL /\ Len(grp) = 4 /\ num_events = 3
    /\ \A k \in DOMAIN grp : grp[k].pmu = "armpmu" /\ ~Disabled(grp[k])
    /\ fake_used = 0 .. 2

\* C7: validating a group, accepted or rejected, leaves the real used_mask
\* and owner of every slot and the slot index of every subscription alone;
\* the slots it chooses go to the scratch mask, one for each member that
\* competes, starting from none.
GroupValidationFrame ==
    [][vg_ret' # vg_ret =>
        /\ UNCHANGED <<used_mask, events, idx, grp>>
        /\ fake_used' \subseteq Slots
        /\ Cardinality(fake_used') <=
               Cardinality({k \in DOMAIN grp :
                               grp[k].pmu = "armpmu" /\ ~Disabled(grp[k])})
        /\ vg_ret'.ret = 0 =>
               Cardinality(fake_used') =
                   Cardinality({k \in DOMAIN grp :
                                   grp[k].pmu = "armpmu" /\ ~Disabled(grp[k])})
      ]_vars

\* a group was accepted while a real slot was held, using scratch slots
\* that include the one really held
GroupValidationWitness ==
    /\ vg_ret.done /\ vg_ret.ret = 0 /\ used_mask[0] = {0} /\ 0 \in fake_used
    /\ Cardinality(fake_used) >= 2

\* the events and the hardware of a bank with supported_cpus, before any
\* event is added
LifeInit ==
    /\ max_period = Mask32
    /\ num_events = NumEvents
    /\ used_mask = [c \in CPUs |-> {}]
    /\ events = [c \in CPUs |-> [i \in Slots |-> NULL]]
    /\ counter = [c \in CPUs |-> [i \in Slots |-> 0]]
    /\ enabled = [c \in CPUs |-> [i \in Slots |-> FALSE]]
    /\ ovf = [c \in CPUs |-> [i \in Slots |-> FALSE]]
    /\ hw_state = [e \in Events |-> {}]
    /\ idx = [e \in Events |-> -1]
    /\ sample_period = [e \in Events |-> IF e = "e1" THEN 2 ELSE Shr1(max_period)]
    /\ period_left = sample_period
    /\ prev_count = [e \in Events |-> 0]
    /\ count = [e \in Events |-> 0]
    /\ ev_state = [e \in Events |-> PERF_EVENT_STATE_INACTIVE]
    /\ pc = "idle" /\ pc_ev = NULL /\ pc_cpu = 0
    /\ pm = [c \in supported_cpus |-> "run"]
    /\ pm_saved = [e \in Events |-> NotSaved]
    /\ last = Op("init", NULL, 0, 0, <<>>)
    /\ nticks = 0

\* -------------------------------------------------------------- interrupts
\* interrupt lines: 0 is "no interrupt", PPIs are per-cpu lines shared by
\* the cpus, SPIs are the lines of one cpu each
PPIs == {1, 2}
SPIs == {3, 4}
irq_is_percpu(line) == line \in PPIs
num_possible_cpus == Cardinality(CPUs)
cpumask_first(mask) == CHOOSE c \in mask : \A d \in mask : c <= d

\* The fields armpmu_request_irq may change, as one record, so that
\* armpmu_request_irqs can call it in a loop.  In requested a per-cpu line,
\* requested once for all cpus, has cpu -1.
IrqState ==
    [pmu_state |-> pmu_state, percpu_irq |-> percpu_irq,
     active_irqs |-> active_irqs, requested |-> requested, calls |-> <<>>]

CommitIrq(st) ==
    /\ pmu_state' = st.pmu_state
    /\ percpu_irq' = st.percpu_irq
    /\ active_irqs' = st.active_irqs
    /\ requested' = st.requested

\* request_percpu_irq and request_irq of the interrupt core: a line that
\* is held is refused, a free one may be refused
OsRequest(st, key) == IF key \in st.requested THEN {EBUSY} ELSE {0, EBUSY}

\* lines 617-623: the success path
MarkRunning(st, cpu) ==
    [st EXCEPT !.pmu_state = "RUNNING", !.active_irqs = @ \cup {cpu}]

\* an armpmu_request_irq that requests a per-cpu line for every cpu
armpmu_request_irq_every_cpu(st, cpu) ==
    LET line == irq[cpu] IN
    IF line = 0 THEN {[st |-> st, err |-> 0]}
    ELSE IF irq_is_percpu(line)
    THEN LET st1 == [st EXCEPT !.percpu_irq = line,
                               !.calls = Append(@, "request_percpu_irq")]
         IN  {[st |-> IF err # 0 THEN st1
                      ELSE MarkRunning([st1 EXCEPT !.requested =
                                           @ \cup {<<line, -1>>}], cpu),
               err |-> err] : err \in OsRequest(st, <<line, -1>>)}
    ELSE LET st1 == [st EXCEPT !.calls = Append(@, "irq_force_affinity")]
             st2 == [st1 EXCEPT !.calls = Append(@, "request_irq")]
         IN  UNION {IF aff # 0 /\ num_possible_cpus > 1
                    THEN {[st |-> st1, err |-> aff]}
                    ELSE {[st |-> IF req # 0 THEN st2
                                  ELSE MarkRunning([st2 EXCEPT !.requested =
                                                     @ \cup {<<line, cpu>>}],
                                                   cpu),
                           err |-> req] : req \in OsRequest(st, <<line, cpu>>)} :
                      aff \in {0, EINVAL}}

\* armpmu_request_irq: the outcomes [st, err]
armpmu_request_irq(st, cpu) ==
    LET line == irq[cpu] IN
    IF line = 0 THEN {[st |-> st, err |-> 0]}
    ELSE IF irq_is_percpu(line) /\ st.active_irqs = {}
    THEN LET st1 == [st EXCEPT !.percpu_irq = line,
                               !.calls = Append(@, "request_percpu_irq")]
         IN  {[st |-> IF err # 0 THEN st1
                      ELSE MarkRunning([st1 EXCEPT !.requested =
                                           @ \cup {<<line, -1>>}], cpu),
               err |-> err] : err \in OsRequest(st, <<line, -1>>)}
    ELSE IF irq_is_percpu(line)
    THEN LET other_irq == irq[cpumask_first(st.active_irqs)] IN
         IF line # other_irq THEN {[st |-> st, err |-> EINVAL]}
         ELSE {[st |-> MarkRunning(st, cpu), err |-> 0]}
    ELSE LET st1 == [st EXCEPT !.calls = Append(@, "irq_force_affinity")]
             st2 == [st1 EXCEPT !.calls = Append(@, "request_irq")]
         IN  UNION {IF aff # 0 /\ num_possible_cpus > 1
                    THEN {[st |-> st1, err |-> aff]}
                    ELSE {[st |-> IF req # 0 THEN st2
                                  ELSE MarkRunning([st2 EXCEPT !.requested =
                                                     @ \cup {<<line, cpu>>}],
                                                   cpu),
                           err |-> req] : req \in OsRequest(st, <<line, cpu>>)} :
                      aff \in {0, EINVAL}}

\* the line of one supported cpu is requested
RequestIrq(cpu) ==
    /\ irq_pc = "idle" /\ cpu \in supported_cpus
    /\ \E r \in armpmu_request_irq(IrqState, cpu) :
         /\ CommitIrq(r.st)
         /\ last' = Op("request_irq", NULL, cpu, r.err, r.st.calls)
    /\ UNCHANGED <<irq, irq_pc, irq_pc_cpu, online, ppi_enabled, plat_device,
                   updVars, groupVars, mapVars, bankVars, slotVars, hwVars, evVars,
                   pcVars, pm, pm_saved, nticks>>

\* the loop of armpmu_request_irqs over the cpus cs still to visit: the
\* outcomes [st, err, cpu], cpu the one that failed
RECURSIVE request_irqs_from(_, _)
request_irqs_from(st, cs) ==
    IF cs = {} THEN {[st |-> st, err |-> 0, cpu |-> -1]}
    ELSE LET c == cpumask_first(cs) IN
         UNION {IF r.err # 0 THEN {[st |-> r.st, err |-> r.err, cpu |-> c]}
                ELSE request_irqs_from(r.st, cs \ {c}) :
                   r \in armpmu_request_irq(st, c)}

armpmu_request_irqs(st) == request_irqs_from(st, supported_cpus)

RequestIrqs ==
    /\ irq_pc = "idle"
    /\ \E r \in armpmu_request_irqs(IrqState) :
         /\ CommitIrq(r.st)
         /\ last' = Op("request_irqs", NULL, r.cpu, r.err, r.st.calls)
    /\ UNCHANGED <<irq, irq_pc, irq_pc_cpu, online, ppi_enabled, plat_device,
                   updVars, groupVars, mapVars, bankVars, slotVars, hwVars, evVars,
                   pcVars, pm, pm_saved, nticks>>

\* armpmu_free_irq, lines 541-549, that leaves pmu_state as it is
FreeIrqBegin_keep_state(cpu) ==
    /\ irq_pc = "idle" /\ cpu \in supported_cpus
    /\ IF cpu \notin active_irqs
       THEN /\ last' = Op("free_irq", NULL, cpu, 0, <<>>)
            /\ UNCHANGED <<pmu_state, active_irqs, irq_pc, irq_pc_cpu>>
       ELSE /\ active_irqs' = active_irqs \ {cpu}
            /\ irq_pc' = "freeing" /\ irq_pc_cpu' = cpu
            /\ last' = Op("free_irq_begin", NULL, cpu, 0, <<>>)
            /\ UNCHANGED pmu_state
    /\ UNCHANGED <<irq, percpu_irq, requested, online, ppi_enabled,
                   plat_device, updVars, groupVars, mapVars, bankVars, slotVars, hwVars,
                   evVars, pcVars, pm, pm_saved, nticks>>

\* armpmu_free_irq, lines 541-549: nothing for a cpu that is not active,
\* else the cpu is cleared and pmu_state is GOING_DOWN
FreeIrqBegin(cpu) ==
    /\ irq_pc = "idle" /\ cpu \in supported_cpus
    /\ IF cpu \notin active_irqs
       THEN /\ last' = Op("free_irq", NULL, cpu, 0, <<>>)
            /\ UNCHANGED <<pmu_state, active_irqs, irq_pc, irq_pc_cpu>>
       ELSE /\ active_irqs' = active_irqs \ {cpu}
            /\ pmu_state' = "GOING_DOWN"
            /\ irq_pc' = "freeing" /\ irq_pc_cpu' = cpu
            /\ last' = Op("free_irq_begin", NULL, cpu, 0, <<"GOING_DOWN">>)
    /\ UNCHANGED <<irq, percpu_irq, requested, online, ppi_enabled,
                   plat_device, updVars, groupVars, mapVars, bankVars, slotVars, hwVars,
                   evVars, pcVars, pm, pm_saved, nticks>>

\* armpmu_free_irq, lines 551-560
FreeIrqEnd ==
    /\ irq_pc = "freeing"
    /\ LET cpu == irq_pc_cpu
           line == irq[cpu]
       IN  IF irq_is_percpu(line)
           THEN /\ requested' = requested \ {<<line, -1>>}
                /\ ppi_enabled' = {en \in ppi_enabled : en[1] # line}
                /\ active_irqs' = {}
                /\ percpu_irq' = -1
                /\ pmu_state' = "OFF"
                /\ last' = Op("free_irq", NULL, cpu, 0,
                              <<"free_percpu_irq", "OFF">>)
           ELSE /\ requested' = requested \ {<<line, cpu>>}
                /\ pmu_state' = "OFF"
                /\ last' = Op("free_irq", NULL, cpu, 0, <<"free_irq", "OFF">>)
                /\ UNCHANGED <<percpu_irq, active_irqs, ppi_enabled>>
    /\ irq_pc' = "idle" /\ irq_pc_cpu' = 0
    /\ UNCHANGED <<irq, online, plat_device, updVars, groupVars, mapVars, bankVars,
                   slotVars, hwVars, evVars, pcVars, pm, pm_saved, nticks>>

\* arm_perf_starting_cpu, lines 783-808, on the cpu that comes online
arm_perf_starting_cpu(cpu) ==
    /\ cpu \notin online
    /\ online' = online \cup {cpu}
    /\ IF cpu \notin supported_cpus
       THEN /\ last' = Op("starting_cpu", NULL, cpu, 0, <<>>)
            /\ UNCHANGED <<ppi_enabled, hwVars, evVars>>
       ELSE LET m == IF has_reset THEN reset_hook(Machine, cpu) ELSE Machine
                line == percpu_irq
            IN  /\ Commit(m)
                /\ IF pmu_state # "OFF" /\ plat_device
                      /\ line > 0 /\ irq_is_percpu(line)
                   THEN /\ ppi_enabled' = ppi_enabled \cup {<<line, cpu>>}
                        /\ last' = [Op("starting_cpu", NULL, cpu, 0,
                                       Append(m.calls, "enable_percpu_irq"))
                                       EXCEPT !.written = <<line>>]
                   ELSE /\ last' = Op("starting_cpu", NULL, cpu, 0, m.calls)
                        /\ UNCHANGED ppi_enabled
                /\ UNCHANGED <<idx, sample_period, ev_state>>
    /\ UNCHANGED <<irq, pmu_state, percpu_irq, active_irqs, requested, irq_pc,
                   irq_pc_cpu, plat_device, updVars, groupVars, mapVars,
                   bankVars, slotVars, pcVars, pm, pm_saved, nticks>>

\* arm_perf_stopping_cpu, lines 810-833, on the cpu that goes offline
arm_perf_stopping_cpu(cpu) ==
    /\ cpu \in online
    /\ online' = online \ {cpu}
    /\ IF cpu \in supported_cpus /\ pmu_state = "RUNNING" /\ plat_device
          /\ percpu_irq > 0 /\ irq_is_percpu(percpu_irq)
       THEN /\ ppi_enabled' = ppi_enabled \ {<<percpu_irq, cpu>>}
            /\ last' = [Op("stopping_cpu", NULL, cpu, 0,
                           <<"disable_percpu_irq">>)
                           EXCEPT !.written = <<percpu_irq>>]
       ELSE /\ last' = Op("stopping_cpu", NULL, cpu, 0, <<>>)
            /\ UNCHANGED ppi_enabled
    /\ UNCHANGED <<irq, pmu_state, percpu_irq, active_irqs, requested, irq_pc,
                   irq_pc_cpu, plat_device, updVars, groupVars, mapVars,
                   bankVars, slotVars, hwVars, evVars, pcVars, pm, pm_saved,
                   nticks>>

\* The bank as armpmu_alloc leaves it (pmu_state OFF, percpu_irq -1, no
\* active cpu) for every assignment of lines to the cpus the probe may make.
InitIrq ==
    /\ supported_cpus \in SUBSET CPUs \ {{}}
    /\ has_reset \in BOOLEAN
    /\ LifeInit
    /\ UpdIdle /\ GroupIdle /\ MapIdle
    /\ irq \in [CPUs -> {0} \cup PPIs \cup SPIs]
    /\ \A c, d \in CPUs : (c # d /\ irq[c] \in SPIs) => irq[c] # irq[d]
    /\ pmu_state = "OFF"
    /\ percpu_irq = -1
    /\ active_irqs = {}
    /\ requested = {}
    /\ irq_pc = "idle" /\ irq_pc_cpu = 0
    /\ online = CPUs
    /\ ppi_enabled = {}
    /\ plat_device \in BOOLEAN

NextIrq ==
    \/ \E cpu \in CPUs : RequestIrq(cpu)
    \/ RequestIrqs
    \/ \E cpu \in CPUs : FreeIrqBegin(cpu)
    \/ FreeIrqEnd
    \/ \E cpu \in CPUs : arm_perf_starting_cpu(cpu)
    \/ \E cpu \in CPUs : arm_perf_stopping_cpu(cpu)

SpecIrq == InitIrq /\ [][NextIrq]_vars

\* C10: when armpmu_request_irq returns an error, pmu_state, percpu_irq and
\* active_irqs are what they were before the call.
RequestFailureFrame ==
    [][(last' # last /\ last'.op = "request_irq" /\ last'.ret # 0)
          => UNCHANGED <<pmu_state, percpu_irq, active_irqs>>]_vars


\* C11: armpmu_free_irq of a cpu that is not active changes nothing; of an
\* active cpu, pmu_state is GOING_DOWN in the step that frees the line and
\* OFF after it, and when the line is a per-cpu one active_irqs is emptied
\* and percpu_irq is -1, else only the line of this cpu is freed.
ReleaseProtocol ==
    [][/\ (last' # last /\ last'.op = "free_irq" /\ irq_pc = "idle") =>
              /\ last'.cpu \notin active_irqs
              /\ UNCHANGED <<pmu_state, percpu_irq, active_irqs, requested>>
       /\ (last' # last /\ last'.op = "free_irq_begin") =>
              /\ last'.cpu \in active_irqs
              /\ UNCHANGED requested
       /\ (irq_pc = "freeing" /\ irq_pc' = "idle") =>
              LET line == irq[irq_pc_cpu] IN
              /\ pmu_state = "GOING_DOWN"
              /\ pmu_state' = "OFF"
              /\ irq_pc_cpu \notin active_irqs'
              /\ IF irq_is_percpu(line)
                 THEN /\ active_irqs' = {}
                      /\ percpu_irq' = -1
                      /\ requested' = requested \ {<<line, -1>>}
                 ELSE /\ requested' = requested \ {<<line, irq_pc_cpu>>}
                      /\ UNCHANGED <<active_irqs, percpu_irq>>
      ]_vars

\* a per-cpu line that both cpus share has been freed
ReleaseProtocolWitness ==
    /\ last.op = "free_irq" /\ last.calls = <<"free_percpu_irq", "OFF">>
    /\ supported_cpus = CPUs /\ irq[0] = irq[1]
    /\ pmu_state = "OFF" /\ active_irqs = {} /\ percpu_irq = -1
    /\ requested = {}

\* C12: when armpmu_request_irqs, called on a bank that is OFF with no
\* active cpu, fails for some cpu, no cpu after that one is requested and
\* pmu_state is not RUNNING when the call returns.
BringUpFailure ==
    [][(/\ last' # last /\ last'.op = "request_irqs" /\ last'.ret # 0
        /\ pmu_state = "OFF" /\ active_irqs = {}) =>
           /\ \A c \in active_irqs' : c < last'.cpu
           /\ pmu_state' # "RUNNING"
      ]_vars

\* ---------------------------------------------------------- event mapping
\* width of the sub-fields of a cache config (8 bits in the source)
CacheFieldBits == 3
\* bits of attr.config the model draws: the three sub-fields and one more
ConfigBits == (3 * CacheFieldBits) + 1

PERF_COUNT_HW_MAX == 10
PERF_COUNT_HW_CACHE_MAX == 7
PERF_COUNT_HW_CACHE_OP_MAX == 3
PERF_COUNT_HW_CACHE_RESULT_MAX == 2
EOPNOTSUPP == -95

\* (int)x : the low 32 bits of x as a two's complement number
ToInt(x) ==
    LET y == x % (2 ^ Bits32)
    IN  IF y >= 2 ^ (Bits32 - 1) THEN y - (2 ^ Bits32) ELSE y

\* a & b for a, b >= 0
RECURSIVE And(_, _)
And(a, b) ==
    IF a = 0 \/ b = 0 THEN 0
    ELSE (2 * And(a \div 2, b \div 2)) + ((a % 2) * (b % 2))

\* (config >> (k * 8)) & 0xff
CacheField(config, k) ==
    (config \div (2 ^ (k * CacheFieldBits))) % (2 ^ CacheFieldBits)

\* HW_OP_UNSUPPORTED and CACHE_OP_UNSUPPORTED: a code no event has
HW_OP_UNSUPPORTED == (2 ^ (Bits32 - 1)) - 1
CACHE_OP_UNSUPPORTED == (2 ^ (Bits32 - 1)) - 1

\* the tables of a bank driver, which event_map and cache_map point to
\* when they are not NULL: hardware codes, which are not negative as an
\* int, and the sentinel where the bank has no such event
EventTable ==
    [c \in 0 .. (PERF_COUNT_HW_MAX - 1) |-> c % (HW_OP_UNSUPPORTED + 1)]
CacheTable ==
    [t \in 0 .. (PERF_COUNT_HW_CACHE_MAX - 1) |->
       [o \in 0 .. (PERF_COUNT_HW_CACHE_OP_MAX - 1) |->
          [r \in 0 .. (PERF_COUNT_HW_CACHE_RESULT_MAX - 1) |->
             (t + (2 * o) + r) % (CACHE_OP_UNSUPPORTED + 1)]]]

\* an armpmu_map_cache_event that decodes the operation from the bits of
\* the type
armpmu_map_cache_event_same_field(map, config) ==
    LET cache_type == CacheField(config, 0)
        cache_op == CacheField(config, 0)
        cache_result == CacheField(config, 2)
    IN  IF cache_type >= PERF_COUNT_HW_CACHE_MAX THEN EINVAL
        ELSE IF cache_op >= PERF_COUNT_HW_CACHE_OP_MAX THEN EINVAL
        ELSE IF cache_result >= PERF_COUNT_HW_CACHE_RESULT_MAX THEN EINVAL
        ELSE IF map = NULL THEN ENOENT
        ELSE IF CacheTable[cache_type][cache_op][cache_result] = CACHE_OP_UNSUPPORTED
             THEN ENOENT
        ELSE ToInt(CacheTable[cache_type][cache_op][cache_result])

armpmu_map_cache_event(map, config) ==
    LET cache_type == CacheField(config, 0)
        cache_op == CacheField(config, 1)
        cache_result == CacheField(config, 2)
    IN  IF cache_type >= PERF_COUNT_HW_CACHE_MAX THEN EINVAL
        ELSE IF cache_op >= PERF_COUNT_HW_CACHE_OP_MAX THEN EINVAL
        ELSE IF cache_result >= PERF_COUNT_HW_CACHE_RESULT_MAX THEN EINVAL
        ELSE IF map = NULL THEN ENOENT
        ELSE IF CacheTable[cache_type][cache_op][cache_result] = CACHE_OP_UNSUPPORTED
             THEN ENOENT
        ELSE ToInt(CacheTable[cache_type][cache_op][cache_result])

armpmu_map_hw_event(map, config) ==
    IF config >= PERF_COUNT_HW_MAX THEN EINVAL
    ELSE IF map = NULL THEN ENOENT
    ELSE IF EventTable[config] = HW_OP_UNSUPPORTED THEN ENOENT
    ELSE ToInt(EventTable[config])

armpmu_map_raw_event(raw_mask, config) == ToInt(And(config, raw_mask))

\* event->pmu->type, the type the bank got when it was registered
PmuType == "NATIVE"

armpmu_map_event(type, config, emap, cmap, raw_mask) ==
    IF type = PmuType THEN armpmu_map_raw_event(raw_mask, config)
    ELSE IF type = "PERF_TYPE_HARDWARE" THEN armpmu_map_hw_event(emap, config)
    ELSE IF type = "PERF_TYPE_HW_CACHE"
         THEN armpmu_map_cache_event(cmap, config)
    ELSE IF type = "PERF_TYPE_RAW" THEN armpmu_map_raw_event(raw_mask, config)
    ELSE ENOENT

\* armpmu->map_event of the bank: armpmu_map_event on the bank's tables
map_event ==
    armpmu_map_event(attr_type, attr_config, event_map, cache_map,
                     raw_event_mask)

\* __hw_perf_event_init of e1, an event that is its own group leader:
\* [ret, step], step the place where it returned
hw_perf_event_init(filter_fails, excl) ==
    IF map_event < 0 THEN [ret |-> map_event, step |-> "mapping"]
    ELSE IF filter_fails /\ excl THEN [ret |-> EOPNOTSUPP, step |-> "filter"]
    ELSE [ret |-> 0, step |-> "done"]

\* armpmu_event_init of e1 with attr.cpu = cpu
armpmu_event_init(cpu, branch_stack, filter_fails, excl) ==
    IF cpu # -1 /\ cpu \notin supported_cpus
    THEN [ret |-> ENOENT, step |-> "cpu"]
    ELSE IF branch_stack THEN [ret |-> EOPNOTSUPP, step |-> "branch_stack"]
    ELSE IF map_event = ENOENT THEN [ret |-> ENOENT, step |-> "map_event"]
    ELSE hw_perf_event_init(filter_fails, excl)

EventInit(cpu, branch_stack, filter_fails, excl, sampling) ==
    /\ ~init_res.done
    /\ LET r == armpmu_event_init(cpu, branch_stack, filter_fails, excl)
           mapped == r.step \in {"filter", "done"}
       IN  /\ init_res' = [done |-> TRUE, ret |-> r.ret, step |-> r.step]
           /\ idx' = IF mapped THEN [idx EXCEPT !["e1"] = -1] ELSE idx
           /\ config_base' = IF r.step = "done" THEN map_event ELSE
                             IF mapped THEN 0 ELSE config_base
           /\ IF r.step = "done" /\ ~sampling
              THEN /\ sample_period' =
                          [sample_period EXCEPT !["e1"] = Shr1(max_period)]
                   /\ period_left' =
                          [period_left EXCEPT !["e1"] = Shr1(max_period)]
              ELSE UNCHANGED <<sample_period, period_left>>
           /\ last' = Op("event_init", "e1", cpu, r.ret, <<"map_event">>)
    /\ UNCHANGED <<attr_type, attr_config, raw_event_mask, event_map,
                   cache_map, updVars, groupVars, irqVars, bankVars, slotVars,
                   hwVars, hw_state, prev_count, count, ev_state, pcVars, pm,
                   pm_saved, nticks>>

\* Event e1 as perf_event_alloc hands it to the bank (hw.idx zeroed), for
\* every type, a config of ConfigBits bits (of fewer bits where the higher
\* ones change nothing), the bank's tables present or absent and every
\* raw_event_mask of 32 bits.
InitMap ==
    /\ supported_cpus = {0}
    /\ has_reset = TRUE
    /\ max_period = Mask32
    /\ num_events = NumEvents
    /\ used_mask = [c \in CPUs |-> {}]
    /\ events = [c \in CPUs |-> [i \in Slots |-> NULL]]
    /\ counter = [c \in CPUs |-> [i \in Slots |-> 0]]
    /\ enabled = [c \in CPUs |-> [i \in Slots |-> FALSE]]
    /\ ovf = [c \in CPUs |-> [i \in Slots |-> FALSE]]
    /\ hw_state = [e \in Events |-> {}]
    /\ idx = [e \in Events |-> IF e = "e1" THEN 0 ELSE -1]
    /\ sample_period = [e \in Events |-> 0]
    /\ period_left = sample_period
    /\ prev_count = [e \in Events |-> 0]
    /\ count = [e \in Events |-> 0]
    /\ ev_state = [e \in Events |-> PERF_EVENT_STATE_INACTIVE]
    /\ pc = "idle" /\ pc_ev = NULL /\ pc_cpu = 0
    /\ pm = [c \in supported_cpus |-> "run"]
    /\ pm_saved = [e \in Events |-> NotSaved]
    /\ last = Op("init", NULL, 0, 0, <<>>)
    /\ nticks = 0
    /\ UpdIdle /\ GroupIdle /\ IrqIdle
    /\ attr_type \in {PmuType, "PERF_TYPE_HARDWARE", "PERF_TYPE_HW_CACHE",
                      "PERF_TYPE_RAW", "PERF_TYPE_SOFTWARE"}
    /\ attr_config \in 0 .. ((2 ^ ConfigBits) - 1)
    /\ raw_event_mask \in 0 .. Mask32
    /\ event_map \in {NULL, "EventTable"}
    /\ cache_map \in {NULL, "CacheTable"}
    /\ attr_type \in {PmuType, "PERF_TYPE_RAW"} =>
           event_map = NULL /\ cache_map = NULL
    /\ attr_type \in {PmuType, "PERF_TYPE_RAW"} =>
           attr_config < 2 ^ (Bits32 + 1)
    /\ attr_type \notin {PmuType, "PERF_TYPE_RAW"} => raw_event_mask = Mask32
    /\ attr_type # "PERF_TYPE_HARDWARE" => event_map = NULL
    /\ attr_type = "PERF_TYPE_HARDWARE" => attr_config < 2 * PERF_COUNT_HW_MAX
    /\ attr_type = "PERF_TYPE_SOFTWARE" => attr_config < 2
    /\ attr_type # "PERF_TYPE_HW_CACHE" => cache_map = NULL
    /\ config_base = 0
    /\ init_res = [done |-> FALSE, ret |-> 0, step |-> "none"]

NextMap ==
    \E cpu \in {-1} \cup CPUs, branch_stack, filter_fails, excl, sampling \in BOOLEAN :
        EventInit(cpu, branch_stack, filter_fails, excl, sampling)

SpecMap == InitMap /\ [][NextMap]_vars

\* this step is a call of another operation, or on another event or cpu,
\* than the last one
NewCall ==
    last'.op # last.op \/ last'.ev # last.ev \/ last'.cpu # last.cpu

\* the error of an event the bank has no mapping for (line 109)
NotSupported == armpmu_map_event("PERF_TYPE_SOFTWARE", 0, NULL, NULL, 0)

\* C13: armpmu_add on a cpu outside supported_cpus returns an error that is
\* not the one of an unmapped event, does not call get_event_idx and leaves
\* used_mask, events and the fields of the event as they were.
AddUnsupportedCore ==
    [][(NewCall /\ last'.op = "add" /\ last'.cpu \notin supported_cpus) =>
           /\ last'.ret < 0
           /\ last'.ret # NotSupported
           /\ "get_event_idx" \notin Range(last'.calls)
           /\ UNCHANGED <<slotVars, hwVars, evVars>>
      ]_vars


\* C14: for an event of type PERF_TYPE_RAW or of the bank's own type, for
\* every config and every raw_event_mask, map_event is config &
\* raw_event_mask and the init of the event does not fail at the mapping.
RawMappingSucceeds ==
    (init_res.done /\ attr_type \in {PmuType, "PERF_TYPE_RAW"}) =>
        /\ map_event = And(attr_config, raw_event_mask)
        /\ init_res.step \notin {"map_event", "mapping"}

\* C15: the slot index of an event is a valid slot only while the event is
\* on a core (added and not yet deleted, a del in progress included);
\* otherwise, so after armpmu_del, it is -1.
SlotHeldOnlyBetweenAddAndDel ==
    \A e \in Events :
        IF Added(e) \/ (pc # "idle" /\ pc_ev = e)
        THEN idx[e] \in Slots
        ELSE idx[e] = -1

\* what C16 says armpmu_map_cache_event returns for the event's config
CacheMappingExpected ==
    LET w == 2 ^ CacheFieldBits
        type == attr_config % w
        operation == (attr_config \div w) % w
        result == (attr_config \div (w * w)) % w
    IN  IF \/ type >= PERF_COUNT_HW_CACHE_MAX
           \/ operation >= PERF_COUNT_HW_CACHE_OP_MAX
           \/ result >= PERF_COUNT_HW_CACHE_RESULT_MAX
        THEN EINVAL
        ELSE IF cache_map = NULL THEN ENOENT
        ELSE IF CacheTable[type][operation][result] = CACHE_OP_UNSUPPORTED
             THEN ENOENT
        ELSE CacheTable[type][operation][result]

\* C16: for every config, the mapping of an event of type PERF_TYPE_HW_CACHE
\* is -EINVAL when one of the three sub-fields of config is at or above its
\* bound (also without a table), else -ENOENT without a table or for the
\* sentinel entry, else the table's entry; a failed mapping is the result
\* of the init and writes nothing, a successful one is the config_base.
CacheMapping ==
    (/\ init_res.done /\ attr_type = "PERF_TYPE_HW_CACHE"
     /\ init_res.step \in {"map_event", "mapping", "filter", "done"}) =>
        /\ map_event = CacheMappingExpected
        /\ CacheMappingExpected < 0 =>
               /\ init_res.ret = CacheMappingExpected
               /\ idx["e1"] = 0 /\ config_base = 0
        /\ init_res.step = "done" => config_base = CacheMappingExpected

\* a cache event whose config has a bit above the three sub-fields set was
\* mapped to the table's entry
CacheMappingWitness ==
    /\ init_res.done /\ attr_type = "PERF_TYPE_HW_CACHE"
    /\ init_res.step = "done" /\ init_res.ret = 0
    /\ attr_config >= 2 ^ (3 * CacheFieldBits)
    /\ (attr_config \div (2 ^ CacheFieldBits)) % (2 ^ CacheFieldBits) > 0
    /\ config_base > 0

\* C17: a start of e1, whose period is positive, arms it: set_period
\* returns 1 exactly when period_left was <= 0; period_left becomes the
\* period when it was <= -period, period_left + period when it was in
\* (-period, 0], and stays otherwise; afterwards 0 < period_left <=
\* max(period, old period_left).
ArmReconciliation ==
    [][(PERF_HES_STOPPED \in hw_state["e1"]
        /\ PERF_HES_STOPPED \notin hw_state'["e1"]) =>
           LET l == period_left["e1"]
               p == sample_period["e1"]
               l2 == period_left'["e1"]
           IN  /\ p > 0
               /\ (last'.set_period_ret = 1) <=> (l <= 0)
               /\ l <= 0 - p => l2 = p
               /\ (0 - p < l /\ l <= 0) => l2 = l + p
               /\ l > 0 => l2 = l
               /\ 0 < l2
               /\ l2 <= (IF p > l THEN p ELSE l)
      ]_vars

\* a first arm (or one after several missed overflows) reset period_left to
\* a period larger than 1
ArmReconciliationWitness ==
    /\ last.op = "start" /\ last.set_period_ret = 1
    /\ sample_period["e1"] > 1
    /\ period_left["e1"] = sample_period["e1"]
    /\ PERF_HES_STOPPED \notin hw_state["e1"]

\* C19: a hotplug transition of a cpu outside supported_cpus changes
\* nothing of the bank and calls no hook; for a supported cpu with a line
\* configured, the offline transition disables that cpu's line exactly when
\* pmu_state is RUNNING, and the online transition calls the reset hook
\* first when there is one and enables that cpu's line exactly when
\* pmu_state is not OFF.
HotplugCoordination ==
    [][\A cpu \in CPUs :
        LET calls == last'.calls
            line_of_cpu == last'.written = <<irq[cpu]>>
        IN
        /\ (cpu \in online /\ cpu \notin online') =>
              IF cpu \notin supported_cpus
              THEN calls = <<>> /\ ppi_enabled' = ppi_enabled
              ELSE irq[cpu] # 0 =>
                       (pmu_state = "RUNNING" <=>
                            (calls = <<"disable_percpu_irq">> /\ line_of_cpu))
        /\ (cpu \notin online /\ cpu \in online') =>
              IF cpu \notin supported_cpus
              THEN /\ calls = <<>> /\ ppi_enabled' = ppi_enabled
                   /\ UNCHANGED <<hwVars, evVars>>
              ELSE irq[cpu] # 0 =>
                       /\ has_reset => (Len(calls) > 0 /\ calls[1] = "reset")
                       /\ pmu_state # "OFF" <=>
                              (/\ Len(calls) > 0
                               /\ calls[Len(calls)] = "enable_percpu_irq"
                               /\ line_of_cpu)
      ]_vars

\* the positions of a call in a sequence of calls
Positions(calls, name) == {k \in 1..Len(calls) : calls[k] = name}

\* every configured line of the bank is a per-cpu line
SharedLineBank == \A c \in supported_cpus : irq[c] # 0 => irq_is_percpu(irq[c])

\* C20: in a bank whose lines are per-cpu lines, a request calls
\* request_percpu_irq exactly when no cpu is active, and then the line is
\* not held; with a cpu active, a cpu with the same line is only recorded
\* as active, and a cpu with another line gets -EINVAL and is not
\* recorded; the loop over the cpus requests at most once; at most one line
\* is ever held.
SharedLineRequestedOnce ==
    [][SharedLineBank =>
        LET cpu == last'.cpu
            line == irq[cpu]
            asked == Positions(last'.calls, "request_percpu_irq")
        IN
        /\ (last'.op = "request_irq" /\ line # 0) =>
              /\ asked # {} <=> active_irqs = {}
              /\ asked # {} =>
                     /\ last'.calls = <<"request_percpu_irq">>
                     /\ <<line, -1>> \notin requested
                     /\ last'.ret = 0 =>
                            /\ active_irqs' = {cpu}
                            /\ requested' = requested \cup {<<line, -1>>}
                     /\ last'.ret # 0 =>
                            /\ active_irqs' = active_irqs
                            /\ requested' = requested
              /\ active_irqs # {} =>
                     LET other_irq == irq[cpumask_first(active_irqs)] IN
                     /\ last'.calls = <<>>
                     /\ requested' = requested
                     /\ percpu_irq' = percpu_irq
                     /\ line = other_irq =>
                            /\ last'.ret = 0
                            /\ active_irqs' = active_irqs \cup {cpu}
                     /\ line # other_irq =>
                            /\ last'.ret = EINVAL
                            /\ active_irqs' = active_irqs
                            /\ cpu \notin active_irqs'
        /\ last'.op = "request_irqs" =>
              /\ Cardinality(asked) <= 1
              /\ active_irqs # {} => asked = {}
        /\ Cardinality(requested') <= 1
        /\ active_irqs' # {} => requested' = {<<percpu_irq', -1>>}
      ]_vars

\* the second cpu of the bank was only recorded as active
SharedLineRequestedOnceWitness ==
    /\ SharedLineBank
    /\ last.op = "request_irq" /\ last.ret = 0 /\ last.calls = <<>>
    /\ irq[last.cpu] # 0
    /\ Cardinality(active_irqs) = 2
    /\ requested = {<<percpu_irq, -1>>}

\* C22: whenever no release is in progress, pmu_state is RUNNING if some
\* cpu is in active_irqs and OFF if none is.
StateAgreesWithActive ==
    irq_pc = "idle" =>
        /\ active_irqs # {} => pmu_state = "RUNNING"
        /\ active_irqs = {} => pmu_state = "OFF"

\* ------------------------------------------- power transitions of a bank
\* with or without a reset hook
InitPm ==
    /\ supported_cpus = {0}
    /\ has_reset \in BOOLEAN
    /\ LifeInit
    /\ AuxIdle

NextPm ==
    \/ \E e \in Events, c \in supported_cpus, start \in BOOLEAN :
           armpmu_add(e, c, start)
    \/ \E e \in Events : Start(e)
    \/ \E e \in Events : Stop(e)
    \/ \E c \in supported_cpus, i \in Slots : Tick(c, i)
    \/ \E c \in CPUs : PmEnter(c)
    \/ \E c \in CPUs, cmd \in {CPU_PM_EXIT, CPU_PM_ENTER_FAILED} : PmExit(c, cmd)

SpecPm == InitPm /\ [][NextPm]_vars

\* C18: on a supported core, a low-power entry with a slot in use calls the
\* stop hook first, before any disable or update, and stops every
\* subscription of the core; a low-power exit calls the reset hook first
\* when there is one, also with no slot in use, and never otherwise; it
\* then arms and enables every used slot whose subscription is active, and
\* calls the start hook last, once, exactly when a slot is in use.
PmHookOrdering ==
    [][\A c \in supported_cpus :
        LET calls == last'.calls
            used == used_mask[c] # {}
        IN
        /\ (pm[c] = "run" /\ pm'[c] = "lowpower") =>
              /\ Positions(calls, "reset") = {}
              /\ Positions(calls, "start_hook") = {}
              /\ Positions(calls, "stop_hook") = IF used THEN {1} ELSE {}
              /\ \A k \in Positions(calls, "disable") \cup
                          Positions(calls, "update") : used /\ k > 1
              /\ \A e \in Events :
                     OnCore(e, c) =>
                         /\ PERF_HES_STOPPED \in hw_state'[e]
                         /\ PERF_HES_UPTODATE \in hw_state'[e]
                         /\ ~enabled'[c][idx[e]]
              /\ Cardinality(Positions(calls, "update")) =
                     Cardinality({e \in Events :
                                     OnCore(e, c) /\ hw_state[e] = {}})
        /\ (pm[c] = "lowpower" /\ pm'[c] = "run"
              /\ last'.op = CPU_PM_EXIT) =>
              /\ Positions(calls, "stop_hook") = {}
              /\ Positions(calls, "reset") = IF has_reset THEN {1} ELSE {}
              /\ Positions(calls, "start_hook") =
                     IF used THEN {Len(calls)} ELSE {}
              /\ ~used => Len(calls) = IF has_reset THEN 1 ELSE 0
              /\ \A e \in Events :
                     OnCore(e, c) =>
                         /\ hw_state'[e] = {}
                         /\ enabled'[c][idx[e]]
                         /\ period_left'[e] > 0
                         /\ counter'[c][idx[e]] =
                                prev_count'[e] % (max_period + 1)
              /\ Cardinality(Positions(calls, "set_period")) =
                     Cardinality({e \in Events : OnCore(e, c)})
              /\ Cardinality(Positions(calls, "enable")) =
                     Cardinality({e \in Events : OnCore(e, c)})
      ]_vars

\* an exit with no slot in use called the reset hook and nothing else
PmHookOrderingWitness ==
    /\ last.op = CPU_PM_EXIT /\ last.cpu \in supported_cpus
    /\ used_mask[last.cpu] = {}
    /\ last.calls = <<"reset">>

\* an exit with two slots in use: reset, two arms, start hook
PmHookOrderingUsedWitness ==
    /\ last.op = CPU_PM_EXIT /\ last.cpu \in supported_cpus
    /\ Cardinality(used_mask[last.cpu]) = 2
    /\ last.calls[1] = "reset"
    /\ last.calls[Len(last.calls)] = "start_hook"

\* C23: on the exit or enter-failed transition that follows a low-power
\* entry of a supported cpu, a subscription that holds a slot of the cpu
\* and was stopped before the entry is still stopped and its counter is
\* not enabled; only the subscriptions that ran before the entry run again.
PowerCycleRestoresStopped ==
    [][\A c \in supported_cpus :
        (pm[c] = "lowpower" /\ pm'[c] = "run") =>
            \A e \in Events :
                /\ (OnCore(e, c) /\ ~pm_saved[e].active) =>
                       /\ PERF_HES_STOPPED \in hw_state'[e]
                       /\ ~enabled'[c][idx[e]]
                /\ (OnCore(e, c) /\ hw_state'[e] = {}) => pm_saved[e].active
      ]_vars

Init == supported_cpus = {0} /\ has_reset = TRUE /\ LifeInit /\ AuxIdle

Next ==
    \/ \E e \in Events, c \in CPUs, start \in BOOLEAN : armpmu_add(e, c, start)
    \/ \E e \in Events : DelStop(e)
    \/ DelClearOwner
    \/ DelClearBit
    \/ \E e \in Events : Start(e)
    \/ \E e \in Events : Stop(e)
    \/ \E e \in Events : armpmu_read(e)
    \/ \E c \in CPUs, i \in Slots : Tick(c, i)
    \/ \E c \in CPUs, i \in Slots : handle_irq(c, i)
    \/ \E c \in CPUs : PmEnter(c)
    \/ \E c \in CPUs, cmd \in {CPU_PM_EXIT, CPU_PM_ENTER_FAILED} : PmExit(c, cmd)
    \/ \E c \in CPUs, cmd \in {CPU_PM_ENTER, CPU_PM_EXIT, CPU_PM_ENTER_FAILED} :
           PmOther(c, cmd)

Spec == Init /\ [][Next]_vars
====
